---- MODULE Spec2Model ----
(***************************************************************************)
(* Smart-Poultry: the farm simulation of main.py (FarmState, its           *)
(* automation agent, the chickens, the radar scan and the simulation loop) *)
(* as a state machine.                                                     *)
(*                                                                         *)
(* Units.  temperature is kept in thousandths of a degree C, water_level   *)
(* and feed_level in thousandths of a percent, light in lux, chicken       *)
(* coordinates in tenths of a pixel.  Every threshold of the code is       *)
(* written in the same unit (27 C = 27000, 50 % = 50000, ...).             *)
(***************************************************************************)
EXTENDS Integers, Sequences, FiniteSets, TLC

VARIABLES
    temperature, light, water_level, feed_level,   \* FarmState readings
    pump, fan, light_on,                           \* FarmState actuators
    time,                                          \* FarmState.time
    hist_len,                                      \* len(FarmState.history[k])
    has_alert_flags,                               \* hasattr(self, "light_alert_sent")
    light_alert_sent, temp_alert_sent,
    water_alert_sent, feed_alert_sent,             \* the lazily created latches
    events,                                        \* the list built by the last automation_agent()
    posts,                                         \* requests.post calls of the current tick, in order
    chickens,                                      \* run_simulation's chickens
    hotspots,                                      \* result of the last scan_hotspots()
    running, pc,                                   \* run_simulation's loop
    steps, moves, scan_moves,                      \* history: steps of this iteration, motion steps done,
                                                   \*   motion steps done when the last scan ran
    evals,                                         \* history: automation_agent() calls so far
    hot_run, hot_acts,                             \* history: current run of evaluations at >= 27 C that
                                                   \*   began with the fan off, Fan-Activated events in it
    last_fan_ev, last_pump_ev,                     \* history: action of the last Fan / Pump event
    unsent,                                        \* history: events appended and never posted
    feed_alerts,                                   \* history: Low Feed Alert events appended so far
    prev_scan,                                     \* history of the radar test: positions and result
                                                   \*   of the scan before the last one
    current_data,                                  \* server.py: the global sensor dict
    data_history, activity_history,
    hotspot_history,                               \* server.py: the three deques
    emitted,                                       \* server.py: socketio.emit calls of the last request
    request, response,                             \* server.py: the last request handled (route and
                                                   \*   JSON body) and the status of its response
    requests,                                      \* history: requests the server has handled
    data_entry,                                    \* server.py: the data_entry a thread running
                                                   \*   add_to_history has built so far
    versions                                       \* history: the values current_data has had

farm_vars == <<temperature, light, water_level, feed_level, pump, fan, light_on,
               time, hist_len>>
flag_vars == <<has_alert_flags, light_alert_sent, temp_alert_sent,
               water_alert_sent, feed_alert_sent>>
hist_vars == <<evals, hot_run, hot_acts, last_fan_ev, last_pump_ev, unsent, feed_alerts>>
loop_vars == <<chickens, hotspots, running, pc, steps, moves, scan_moves>>
server_vars == <<current_data, data_history, activity_history, hotspot_history,
                 emitted, request, response, requests>>
thread_vars == <<data_entry, versions>>
\* what the simulation process leaves alone
apart_vars == <<prev_scan, server_vars, thread_vars>>
vars == <<farm_vars, flag_vars, events, posts, loop_vars, hist_vars, apart_vars>>

Max(a, b) == IF a >= b THEN a ELSE b
Min(a, b) == IF a <= b THEN a ELSE b

----------------------------------------------------------------------------
(* Bounds of the model *)

\* automation_agent() evaluations driven by the test harness
MaxEvals == 3
\* ticks of the simulation loop
MaxTime == 30
\* update() calls of the environment harness
MaxUpdates == 2

----------------------------------------------------------------------------
(* FarmState.automation_agent: the four controllers, each returning the    *)
(* new actuator/latch values and the events it appends.                    *)

LightActivated   == <<"Light", "Activated", "yellow">>
LightDeactivated == <<"Light", "Deactivated", "yellow">>
FanActivated     == <<"Fan", "Activated", "red">>
FanDeactivated   == <<"Fan", "Deactivated", "green">>
PumpActivated    == <<"Pump", "Activated", "blue">>
PumpDeactivated  == <<"Pump", "Deactivated", "blue">>
LowFeedAlert     == <<"Feed", "Low Feed Alert", "red">>

\* value of a latch at its first use: the hasattr block creates it False
Latch(v) == IF has_alert_flags THEN v ELSE FALSE

\* variant: one threshold, the lamp follows light <= 350
LightControlNoHysteresis(l, on) ==
    IF l <= 350 THEN [on |-> TRUE, ev |-> IF on THEN <<>> ELSE <<LightActivated>>]
    ELSE [on |-> FALSE, ev |-> IF on THEN <<LightDeactivated>> ELSE <<>>]

LightControl(l, on) ==
    IF l <= 350 /\ ~on THEN [on |-> TRUE, ev |-> <<LightActivated>>]
    ELSE IF l >= 550 /\ on THEN [on |-> FALSE, ev |-> <<LightDeactivated>>]
    ELSE [on |-> on, ev |-> <<>>]

\* variant: level-triggered, an event in every evaluation at >= 27 C
TemperatureControlLevel(t, on, sent) ==
    IF t >= 27000
    THEN [on |-> TRUE, sent |-> TRUE, ev |-> <<FanActivated>>]
    ELSE IF t <= 15000 /\ on
    THEN [on |-> FALSE, sent |-> FALSE, ev |-> IF sent THEN <<FanDeactivated>> ELSE <<>>]
    ELSE [on |-> on, sent |-> sent, ev |-> <<>>]

\* variant: the fan stops without its Deactivated event
TemperatureControlSilentOff(t, on, sent) ==
    IF t >= 27000 /\ ~on
    THEN [on |-> TRUE, sent |-> TRUE, ev |-> IF ~sent THEN <<FanActivated>> ELSE <<>>]
    ELSE IF t <= 15000 /\ on
    THEN [on |-> FALSE, sent |-> sent, ev |-> <<>>]
    ELSE [on |-> on, sent |-> sent, ev |-> <<>>]

\* variant: the fan stops below 15 C only, which the clamp never lets through
TemperatureControlBelowFloor(t, on, sent) ==
    IF t >= 27000 /\ ~on
    THEN [on |-> TRUE, sent |-> TRUE, ev |-> IF ~sent THEN <<FanActivated>> ELSE <<>>]
    ELSE IF t < 15000 /\ on
    THEN [on |-> FALSE, sent |-> FALSE, ev |-> IF sent THEN <<FanDeactivated>> ELSE <<>>]
    ELSE [on |-> on, sent |-> sent, ev |-> <<>>]

TemperatureControl(t, on, sent) ==
    IF t >= 27000 /\ ~on
    THEN [on |-> TRUE, sent |-> TRUE, ev |-> IF ~sent THEN <<FanActivated>> ELSE <<>>]
    ELSE IF t <= 15000 /\ on
    THEN [on |-> FALSE, sent |-> FALSE, ev |-> IF sent THEN <<FanDeactivated>> ELSE <<>>]
    ELSE [on |-> on, sent |-> sent, ev |-> <<>>]

\* variant: the pump stops with its latch left set
PumpControlLatchKept(w, on, sent) ==
    IF w < 50000 /\ ~on
    THEN [on |-> TRUE, sent |-> TRUE, ev |-> IF ~sent THEN <<PumpActivated>> ELSE <<>>]
    ELSE IF w >= 90000 /\ on
    THEN [on |-> FALSE, sent |-> sent, ev |-> IF sent THEN <<PumpDeactivated>> ELSE <<>>]
    ELSE [on |-> on, sent |-> sent, ev |-> <<>>]

\* variant: level-triggered, an event in every evaluation below 50 %
PumpControlLevel(w, on, sent) ==
    IF w < 50000
    THEN [on |-> TRUE, sent |-> TRUE, ev |-> <<PumpActivated>>]
    ELSE IF w >= 90000 /\ on
    THEN [on |-> FALSE, sent |-> FALSE, ev |-> IF sent THEN <<PumpDeactivated>> ELSE <<>>]
    ELSE [on |-> on, sent |-> sent, ev |-> <<>>]

\* variant: the pump stops as soon as the level is back at 50 %
PumpControlSingleThreshold(w, on, sent) ==
    IF w < 50000 /\ ~on
    THEN [on |-> TRUE, sent |-> TRUE, ev |-> IF ~sent THEN <<PumpActivated>> ELSE <<>>]
    ELSE IF w >= 50000 /\ on
    THEN [on |-> FALSE, sent |-> FALSE, ev |-> IF sent THEN <<PumpDeactivated>> ELSE <<>>]
    ELSE [on |-> on, sent |-> sent, ev |-> <<>>]

PumpControl(w, on, sent) ==
    IF w < 50000 /\ ~on
    THEN [on |-> TRUE, sent |-> TRUE, ev |-> IF ~sent THEN <<PumpActivated>> ELSE <<>>]
    ELSE IF w >= 90000 /\ on
    THEN [on |-> FALSE, sent |-> FALSE, ev |-> IF sent THEN <<PumpDeactivated>> ELSE <<>>]
    ELSE [on |-> on, sent |-> sent, ev |-> <<>>]

\* variant: the latch resets at the threshold that sets it
FeedAlertResetAtTwenty(f, sent) ==
    IF f < 20000 /\ ~sent THEN [sent |-> TRUE, ev |-> <<LowFeedAlert>>]
    ELSE IF f >= 20000 /\ sent THEN [sent |-> FALSE, ev |-> <<>>]
    ELSE [sent |-> sent, ev |-> <<>>]

FeedAlert(f, sent) ==
    IF f < 20000 /\ ~sent THEN [sent |-> TRUE, ev |-> <<LowFeedAlert>>]
    ELSE IF f > 30000 /\ sent THEN [sent |-> FALSE, ev |-> <<>>]
    ELSE [sent |-> sent, ev |-> <<>>]

\* variant: the pump block ahead of the fan block
PumpBeforeFan(lc, tc, pc_, fa) == lc.ev \o pc_.ev \o tc.ev \o fa.ev

\* the list `events` after the four blocks, in the order the code runs them
AgentEvents(lc, tc, pc_, fa) == lc.ev \o tc.ev \o pc_.ev \o fa.ev

\* variants: every event posted; the last event posted
PostEveryEvent(evs) == evs

PostLastEvent(evs) == IF evs # <<>> THEN <<evs[Len(evs)]>> ELSE <<>>

\* "Send first triggered event": the bodies posted to /activity-event
ActivityBodies(evs) == IF evs # <<>> THEN <<evs[1]>> ELSE <<>>

\* variant: the snapshot taken before the controllers ran
DeviceStateBefore(f, p, l, fa) ==
    [fan |-> fan, pump |-> pump, light_on |-> light_on, feed_alert |-> fa]

\* "Always send device state to frontend"
DeviceState(f, p, l, fa) == [fan |-> f, pump |-> p, light_on |-> l, feed_alert |-> fa]

CountOf(seq, e) == Cardinality({i \in DOMAIN seq : seq[i] = e})

ActionOf(evs, subject) ==
    LET idx == {i \in DOMAIN evs : evs[i][1] = subject}
    IN  IF idx = {} THEN "none" ELSE evs[CHOOSE i \in idx : TRUE][2]

\* One automation_agent() call on the readings t, l, w, f; `sent` are the
\* posts already made in this tick.  Each requests.post either returns
\* (ok) or raises, as `outcomes` allows; an exception is caught and printed
\* and leaves the FarmState alone.
AgentBody(t, l, w, f, sent, outcomes) ==
    LET lc  == LightControl(l, light_on)
        tc  == TemperatureControl(t, fan, Latch(temp_alert_sent))
        pc_ == PumpControl(w, pump, Latch(water_alert_sent))
        fa  == FeedAlert(f, Latch(feed_alert_sent))
        evs == AgentEvents(lc, tc, pc_, fa)
        act == ActivityBodies(evs)
        inRun == t >= 27000 /\ (~fan \/ hot_run > 0)
    IN  /\ has_alert_flags' = TRUE
        /\ light_alert_sent' = Latch(light_alert_sent)
        /\ light_on' = lc.on
        /\ fan' = tc.on
        /\ temp_alert_sent' = tc.sent
        /\ pump' = pc_.on
        /\ water_alert_sent' = pc_.sent
        /\ feed_alert_sent' = fa.sent
        /\ events' = evs
        /\ \E okA \in outcomes, okS \in outcomes :
             posts' = sent
                 \o [i \in DOMAIN act |->
                        [url |-> "activity-event", body |-> act[i], ok |-> okA]]
                 \o <<[url |-> "system-state",
                       body |-> DeviceState(tc.on, pc_.on, lc.on, fa.sent),
                       ok |-> okS]>>
        /\ evals' = evals + 1
        /\ hot_run' = IF inRun THEN hot_run + 1 ELSE 0
        /\ hot_acts' = IF inRun THEN hot_acts + CountOf(evs, FanActivated) ELSE 0
        /\ last_fan_ev' = IF ActionOf(evs, "Fan") = "none" THEN last_fan_ev
                          ELSE ActionOf(evs, "Fan")
        /\ last_pump_ev' = IF ActionOf(evs, "Pump") = "none" THEN last_pump_ev
                           ELSE ActionOf(evs, "Pump")
        /\ unsent' = unsent + Len(evs) - Len(act)
        /\ feed_alerts' = feed_alerts + CountOf(evs, LowFeedAlert)

----------------------------------------------------------------------------
(* FarmState.update *)

MAX_HISTORY == 60

\* 1000*sin(v/1000) for 0 <= v <= 1571 (a quarter wave), by the Taylor
\* polynomial v - v^3/6 + v^5/120 - v^7/5040 in integer arithmetic
QuarterSine(v) ==
    LET v2 == (v * v) \div 1000
        v3 == (v2 * v) \div 1000
        v5 == (((v3 * v) \div 1000) * v) \div 1000
        v7 == (((v5 * v) \div 1000) * v) \div 1000
    IN  v - (v3 \div 6) + (v5 \div 120) - (v7 \div 5040)

\* 1000*math.sin(x/1000), x >= 0 in thousandths of a radian (2*pi = 6283)
SinMilli(x) ==
    LET r == x % 6283
    IN  IF r <= 1571 THEN QuarterSine(r)
        ELSE IF r <= 3142 THEN QuarterSine(3142 - r)
        ELSE IF r <= 4712 THEN 0 - QuarterSine(r - 3142)
        ELSE 0 - QuarterSine(6283 - r)

\* math.sin(self.time / 60) * 0.3, in thousandths of a degree
AmbientSine(t) == (300 * SinMilli((1000 * t) \div 60)) \div 1000

\* math.sin(self.time / 100) * 100 * 0.02, in thousandths of a lux
DayCycle(t) == 2 * SinMilli(10 * t)

\* The random draws.  random.uniform(a, b) ranges over a continuum; the
\* model draws from the listed values of that range.  Where the range is
\* shifted by a sine term the value must lie inside the shifted range with
\* a margin of 0.005 that covers the error of SinMilli.
AmbientDrift(t) ==          \* sin(time/60)*0.3 + uniform(-0.15, 0.25)
    {d \in {-400, -200, 0, 200, 400} :
        AmbientSine(t) - 150 + 5 <= d /\ d <= AmbientSine(t) + 250 - 5}
FanCoolingFromZero == {0, 400}    \* variant: uniform(0, 0.4)
FanCooling == {200, 400}    \* uniform(0.2, 0.4)
LampGain == {3, 6}          \* uniform(3, 6)
DaylightChange(t) ==        \* cycle*0.02 + uniform(-5, 5)
    {d \in {-6, -3, 0, 3, 6} :
        DayCycle(t) - 5000 + 5 <= 1000 * d /\ 1000 * d <= DayCycle(t) + 5000 - 5}
PumpFill == {10, 1500}      \* uniform(0.01, 1.5)
ConsumptionOrRefill == {120, -11000}    \* variant: a tick may refill the feeder by 11 %
Consumption == {10, 120}    \* uniform(0.01, 0.12)

\* evap_rate = 0.1 + 0.05 * max(0, (temperature - 25) / 10), read after the
\* temperature step and before the clamp
EvapRate(t) == 100 + (50 * Max(0, t - 25000)) \div 10000

\* variant: the upper limit forgotten
ClampAbove(lo, hi, v) == Max(lo, v)

Clamp(lo, hi, v) == Max(lo, Min(hi, v))

\* One update() with the draws dT (temperature), dL (light), dW (pump
\* fill, used when the pump runs) and dF (feed consumption).
UpdateBody(dT, dL, dW, dF) ==
    LET t1 == IF fan THEN temperature - dT ELSE temperature + dT
        l1 == light + dL
        w1 == IF pump THEN water_level + dW ELSE water_level - EvapRate(t1)
        f1 == feed_level - dF
    IN  /\ time' = time + 1
        /\ temperature' = Clamp(15000, 40000, t1)
        /\ light' = Clamp(0, 600, l1)
        /\ water_level' = Clamp(0, 100000, w1)
        /\ feed_level' = Clamp(0, 100000, f1)
        /\ hist_len' = IF (time + 1) % 5 = 0 THEN Min(MAX_HISTORY, hist_len + 1)
                       ELSE hist_len
        /\ UNCHANGED <<pump, fan, light_on>>

\* the draws of the update() that moves time to t: every listed value
AllDraws(t) ==
    [cool |-> FanCooling, drift |-> AmbientDrift(t), lamp |-> LampGain,
     day |-> DaylightChange(t), fill |-> PumpFill, eat |-> Consumption]

Largest(S) == CHOOSE d \in S : \A e \in S : e <= d

\* a thinner sample of the same ranges, for the long runs of the loop
LoopDraws(t) ==
    [cool |-> FanCooling, drift |-> {Largest(AmbientDrift(t))}, lamp |-> {6},
     day |-> {Largest(DaylightChange(t))}, fill |-> PumpFill, eat |-> {100}]

UpdateWith(D) ==
    \E dT \in (IF fan THEN D.cool ELSE D.drift),
       dL \in (IF light_on THEN D.lamp ELSE D.day),
       dW \in (IF pump THEN D.fill ELSE {0}),
       dF \in D.eat :
        UpdateBody(dT, dL, dW, dF)

----------------------------------------------------------------------------
(* Chicken: position in tenths of a pixel; the heading is kept as          *)
(* (5*cos(direction), 5*sin(direction)), speed in tenths of a pixel.       *)

WIDTH == 800
HEIGHT == 500
CHICKEN_COUNT == 5

\* headings with rational cosine and sine (the axes and the 3-4-5 angles)
Headings ==
    {<<5, 0>>, <<0, 5>>, <<-5, 0>>, <<0, -5>>,
     <<4, 3>>, <<3, 4>>, <<-3, 4>>, <<-4, 3>>,
     <<-4, -3>>, <<-3, -4>>, <<3, -4>>, <<4, -3>>}

\* values drawn when a chicken retargets: direction, speed, step_max
RetargetDraws ==
    {[dir |-> d, speed |-> s, step_max |-> m] :
        d \in {<<5, 0>>, <<-3, 4>>}, s \in {5, 20}, m \in {20}}

\* variant: the position clamped, the heading left as it was
MoveChickenClampOnly(ch, draw) ==
    LET timer == ch.step_timer + 1
        re    == timer >= ch.step_max
        dir   == IF re THEN draw.dir ELSE ch.dir
        spd   == IF re THEN draw.speed ELSE ch.speed
    IN  [x |-> Max(800, Min(10 * (WIDTH - 80), ch.x + (dir[1] * spd) \div 5)),
         y |-> Max(2200, Min(10 * (HEIGHT - 80), ch.y + (dir[2] * spd) \div 5)),
         dir |-> dir, speed |-> spd,
         step_timer |-> IF re THEN 0 ELSE timer,
         step_max |-> IF re THEN draw.step_max ELSE ch.step_max]

\* Chicken.move; `draw` is used only when step_timer reaches step_max
MoveChicken(ch, draw) ==
    LET timer == ch.step_timer + 1
        re    == timer >= ch.step_max
        dir   == IF re THEN draw.dir ELSE ch.dir
        spd   == IF re THEN draw.speed ELSE ch.speed
        x1    == Max(800, Min(10 * (WIDTH - 80), ch.x + (dir[1] * spd) \div 5))
        y1    == Max(2200, Min(10 * (HEIGHT - 80), ch.y + (dir[2] * spd) \div 5))
        \* direction = pi - direction: the cosine changes sign
        dx    == IF x1 <= 800 \/ x1 >= 10 * (WIDTH - 80) THEN 0 - dir[1] ELSE dir[1]
        \* direction = -direction: the sine changes sign
        dy    == IF y1 <= 2200 \/ y1 >= 10 * (HEIGHT - 80) THEN 0 - dir[2] ELSE dir[2]
    IN  [x |-> x1, y |-> y1, dir |-> <<dx, dy>>, speed |-> spd,
         step_timer |-> IF re THEN 0 ELSE timer,
         step_max |-> IF re THEN draw.step_max ELSE ch.step_max]

Retargeting(chs) == {i \in DOMAIN chs : chs[i].step_timer + 1 >= chs[i].step_max}

\* `for ch in chickens: ch.move()`
MoveAll(chs, draws) ==
    [i \in DOMAIN chs |->
        MoveChicken(chs[i], IF i \in DOMAIN draws THEN draws[i]
                            ELSE [dir |-> chs[i].dir, speed |-> chs[i].speed,
                                  step_max |-> chs[i].step_max])]

----------------------------------------------------------------------------
(* RadarSystem.scan_hotspots.  Percent coordinates are kept in fortieths   *)
(* of a percent: x_percent = (center_x / 800) * 100 = 5 * center_x / 40,   *)
(* y_percent = (center_y / 500) * 100 = 8 * center_y / 40.                 *)

GridSize == 15
HotspotThreshold == 2
GridWidth == WIDTH \div GridSize
GridHeight == HEIGHT \div GridSize

GridX(ch) == Min(ch.x \div (10 * GridSize), GridWidth - 1)
GridY(ch) == Min(ch.y \div (10 * GridSize), GridHeight - 1)

\* row-major index of the cell, the order of the two nested loops
CellOf(ch) == GridY(ch) * GridWidth + GridX(ch)

ChickenCount(chs, k) == Cardinality({i \in DOMAIN chs : CellOf(chs[i]) = k})

DemoHotspots ==
    << [x |-> 40 * 25, y |-> 40 * 40, intensity |-> 75, name |-> "Feed Area"],
       [x |-> 40 * 75, y |-> 40 * 60, intensity |-> 60, name |-> "Water Area"],
       [x |-> 40 * 50, y |-> 40 * 30, intensity |-> 45, name |-> "Resting Zone"] >>

HotspotName(xp, yp) ==
    IF xp < 40 * 30 THEN "Feed Area"
    ELSE IF xp > 40 * 70 THEN "Water Area"
    ELSE IF yp < 40 * 30 THEN "Resting Zone"
    ELSE "Activity Zone"

\* the record appended for cell k holding n chickens; noise is the draw of
\* random.uniform(0, 20)
MeasuredHotspot(k, n, noise) ==
    LET center_x == (k % GridWidth) * GridSize + GridSize \div 2
        center_y == (k \div GridWidth) * GridSize + GridSize \div 2
    IN  [x |-> 5 * center_x, y |-> 8 * center_y,
         intensity |-> Min(100, n * 20 + noise),
         name |-> HotspotName(5 * center_x, 8 * center_y)]

\* variant: the comparison strict, a pair is not enough
HotCellsAboveThreshold(chs) ==
    {k \in {CellOf(chs[i]) : i \in DOMAIN chs} : ChickenCount(chs, k) > HotspotThreshold}

\* the cells the nested loops find at or above the threshold; only a cell
\* holding a chicken can qualify
HotCells(chs) ==
    {k \in {CellOf(chs[i]) : i \in DOMAIN chs} : ChickenCount(chs, k) >= HotspotThreshold}

RECURSIVE InScanOrder(_)
InScanOrder(cells) ==
    IF cells = {} THEN <<>>
    ELSE LET k == CHOOSE c \in cells : \A d \in cells : c <= d
         IN  <<k>> \o InScanOrder(cells \ {k})

IntensityNoise == {0, 10}

ScanHotspots(chs, noise) ==
    LET order == InScanOrder(HotCells(chs))
    IN  DemoHotspots \o
        [j \in DOMAIN order |->
            MeasuredHotspot(order[j], ChickenCount(chs, order[j]), noise[order[j]])]

\* variant: the list of the earlier scan is kept and extended
KeptHotspots(old) == old

\* `self.hotspots = []` at the head of scan_hotspots
ClearedHotspots(old) == <<>>

\* self.hotspots when scan_hotspots returns, given self.hotspots before
ScanResult(old, chs, noise) == ClearedHotspots(old) \o ScanHotspots(chs, noise)

----------------------------------------------------------------------------
(* run_simulation: the loop, one action per block of an iteration *)

\* Chicken() x 5: samples of the constructor's draws
Spawn(x, y, d, s, m) ==
    [x |-> 10 * x, y |-> 10 * y, dir |-> d, speed |-> s, step_timer |-> 0, step_max |-> m]

SpawnConfigs ==
    { << Spawn(700, 300, <<5, 0>>, 15, 20),
         Spawn(100, 250, <<0, -5>>, 15, 60),
         Spawn(400, 300, <<3, 4>>, 5, 60),
         Spawn(402, 301, <<-4, 3>>, 10, 60),
         Spawn(200, 400, <<-3, -4>>, 10, 45) >>,
      << Spawn(100, 250, <<4, 3>>, 10, 60),
         Spawn(250, 400, <<-4, -3>>, 10, 60),
         Spawn(400, 325, <<0, 5>>, 5, 60),
         Spawn(550, 280, <<3, -4>>, 15, 60),
         Spawn(700, 390, <<-5, 0>>, 5, 60) >> }

\* server.py at start: current_data as the module sets it (temperature,
\* tankLevel and feed in thousandths, humidity in hundredths, as the
\* simulation posts them), the three deques empty, nothing handled yet
\* a request without a JSON body, or with the body {}
NoBody == [k \in {} |-> 0]

ServerStarted ==
    /\ current_data = [temperature |-> 27500, humidity |-> 6000, tankLevel |-> 80000,
                       feed |-> 65000, light |-> 400]
    /\ data_history = <<>> /\ activity_history = <<>> /\ hotspot_history = <<>>
    /\ emitted = <<>> /\ requests = 0
    /\ request = [route |-> "none", body |-> NoBody] /\ response = 0
    /\ data_entry = NoBody /\ versions = {current_data}

\* the parts a test of the simulation leaves alone: the server just started,
\* no radar test run
Apart == ServerStarted /\ prev_scan = <<>>

\* the state FarmState() and run_simulation construct
SimulationConstructed ==
    /\ temperature = 26000 /\ light = 320
    /\ water_level = 85000 /\ feed_level = 75000
    /\ pump = FALSE /\ fan = FALSE /\ light_on = FALSE
    /\ time = 0 /\ hist_len = 0
    /\ has_alert_flags = FALSE
    /\ light_alert_sent = FALSE /\ temp_alert_sent = FALSE
    /\ water_alert_sent = FALSE /\ feed_alert_sent = FALSE
    /\ events = <<>> /\ posts = <<>>
    /\ hotspots = <<>>
    /\ running = TRUE
    /\ steps = <<>> /\ moves = 0 /\ scan_moves = 0
    /\ evals = 0 /\ hot_run = 0 /\ hot_acts = 0
    /\ last_fan_ev = "none" /\ last_pump_ev = "none" /\ unsent = 0
    /\ feed_alerts = 0

Constructed == SimulationConstructed /\ Apart

Init ==
    /\ Constructed
    /\ chickens \in SpawnConfigs
    /\ pc = "poll"

\* the blocks of one iteration of `while running`, in the order the code
\* runs them; MotionFirst is the order with motion and scan leading
MotionFirst == <<"move", "scan", "update", "agent", "notify">>

Blocks == <<"update", "agent", "scan", "notify", "move">>

\* where control goes after block b: the next block, or the loop test
After(b) ==
    LET i == CHOOSE j \in DOMAIN Blocks : Blocks[j] = b
    IN  IF i < Len(Blocks) THEN Blocks[i + 1]
        ELSE IF running THEN "poll" ELSE "done"

\* `for e in pygame.event.get()`: a QUIT event clears `running`; the rest
\* of the iteration still runs
PollEvents ==
    /\ pc = "poll" /\ time < MaxTime
    /\ \E quit \in BOOLEAN : running' = ~quit
    /\ pc' = Blocks[1]
    /\ steps' = <<>> /\ posts' = <<>>
    /\ UNCHANGED <<apart_vars, farm_vars, flag_vars, events, chickens, hotspots, moves,
                   scan_moves, hist_vars>>

Update ==
    /\ pc = "update"
    /\ UpdateWith(LoopDraws(time + 1))
    /\ pc' = After("update")
    /\ steps' = Append(steps, "update")
    /\ UNCHANGED <<apart_vars, flag_vars, events, posts, chickens, hotspots, running, moves,
                   scan_moves, hist_vars>>

\* variant: no handler, a post that raises ends run_simulation
ExceptUncaught(ps, next) == IF \A i \in DOMAIN ps : ps[i].ok THEN next ELSE "done"

\* `try: requests.post(...) except Exception: print/pass` around each of the
\* posts ps: whatever their outcomes, control goes on to `next`
ExceptCaught(ps, next) == next

\* the posts a block has added to those of the tick
NewPosts(before, after) == SubSeq(after, Len(before) + 1, Len(after))

AutomationAgent ==
    /\ pc = "agent"
    /\ AgentBody(temperature, light, water_level, feed_level, posts, BOOLEAN)
    /\ pc' = ExceptCaught(NewPosts(posts, posts'), After("agent"))
    /\ steps' = Append(steps, "agent")
    /\ UNCHANGED <<apart_vars, temperature, light, water_level, feed_level, time, hist_len,
                   chickens, hotspots, running, moves, scan_moves>>

Scan ==
    /\ pc = "scan"
    /\ \E noise \in [HotCells(chickens) -> IntensityNoise] :
          hotspots' = ScanResult(hotspots, chickens, noise)
    /\ scan_moves' = moves
    /\ pc' = After("scan")
    /\ steps' = Append(steps, "scan")
    /\ UNCHANGED <<apart_vars, farm_vars, flag_vars, events, posts, chickens, running, moves,
                   hist_vars>>

\* round(v, n) for v on a grid of 1/unit: v rounded to a multiple of q,
\* ties to the even multiple
RoundTo(v, q) ==
    LET lo == (v \div q) * q
        r  == v - lo
    IN  IF 2 * r < q THEN lo
        ELSE IF 2 * r > q THEN lo + q
        ELSE IF (lo \div q) % 2 = 0 THEN lo ELSE lo + q

Humidity == {4500, 7500}     \* round(random.uniform(45, 75), 2), in hundredths

\* the body of the sensor post; light lies on whole lux, which round(.., 2)
\* leaves as it is
SensorData(h) ==
    [temperature |-> RoundTo(temperature, 10), humidity |-> h,
     tankLevel |-> RoundTo(water_level, 100), feed |-> RoundTo(feed_level, 100),
     light |-> light]

\* "Send live updates to Flask" and "Send hotspot data to Flask"
SendUpdates ==
    /\ pc = "notify"
    /\ \E h \in (IF time % 15 = 0 THEN Humidity ELSE {0}),
          okD \in (IF time % 15 = 0 THEN BOOLEAN ELSE {TRUE}),
          okH \in (IF time % 30 = 0 THEN BOOLEAN ELSE {TRUE}) :
          posts' = posts
              \o (IF time % 15 = 0
                  THEN <<[url |-> "update-sensor", body |-> SensorData(h), ok |-> okD]>>
                  ELSE <<>>)
              \o (IF time % 30 = 0
                  THEN <<[url |-> "hotspot-data", body |-> [hotspots |-> hotspots],
                          ok |-> okH]>>
                  ELSE <<>>)
    /\ pc' = ExceptCaught(NewPosts(posts, posts'), After("notify"))
    /\ steps' = Append(steps, "notify")
    /\ UNCHANGED <<apart_vars, farm_vars, flag_vars, events, chickens, hotspots, running, moves,
                   scan_moves, hist_vars>>

\* `for ch in chickens: ch.move()`, then the `while running` test
MoveChickens ==
    /\ pc = "move"
    /\ \E draws \in [Retargeting(chickens) -> RetargetDraws] :
          chickens' = MoveAll(chickens, draws)
    /\ moves' = moves + 1
    /\ pc' = After("move")
    /\ steps' = Append(steps, "move")
    /\ UNCHANGED <<apart_vars, farm_vars, flag_vars, events, posts, hotspots, running,
                   scan_moves, hist_vars>>

Next == PollEvents \/ Update \/ AutomationAgent \/ Scan \/ SendUpdates \/ MoveChickens

Spec == Init /\ [][Next]_vars

----------------------------------------------------------------------------
(* A test harness for automation_agent(): a FarmState is constructed, and  *)
(* each step feeds it readings and evaluates the agent once, with the      *)
(* dashboard reachable.  The readings are the thresholds of the four       *)
(* controllers and values between them, in every combination, and three    *)
(* more vectors just beside a threshold.                                   *)

TempInputs  == {15000, 20000, 27000}
LightInputs == {350, 400, 550}
WaterInputs == {45000, 89000, 90000}
FeedInputs  == {15000, 30000, 30100}

TestVectors ==
    (TempInputs \X LightInputs \X WaterInputs \X FeedInputs)
    \cup {<<28000, 400, 45000, 15000>>,
          <<26800, 351, 50000, 20000>>,
          <<15200, 549, 49000, 19900>>}

InitAgent ==
    /\ Constructed
    /\ chickens = <<>>
    /\ pc = "test"

TestEvaluate ==
    /\ pc = "test" /\ evals < MaxEvals
    /\ \E r \in TestVectors :
          /\ temperature' = r[1] /\ light' = r[2]
          /\ water_level' = r[3] /\ feed_level' = r[4]
          /\ AgentBody(r[1], r[2], r[3], r[4], <<>>, {TRUE})
    /\ UNCHANGED <<apart_vars, time, hist_len, chickens, hotspots, running, pc, steps, moves,
                   scan_moves>>

\* the test ends, after any number of evaluations
TestDone ==
    /\ pc = "test"
    /\ pc' = "done"
    /\ UNCHANGED <<apart_vars, farm_vars, flag_vars, events, posts, chickens, hotspots, running,
                   steps, moves, scan_moves, hist_vars>>

NextAgent == TestEvaluate \/ TestDone

SpecAgent == InitAgent /\ [][NextAgent]_vars

----------------------------------------------------------------------------
(* A test harness for update(): a FarmState whose actuators are switched   *)
(* freely between updates.  It starts as constructed, or late in a run     *)
(* (tick 1200) with readings near the ends of their ranges; feed_level only *)
(* falls from 75, so its late values lie below that.                       *)

InitEnv ==
    /\ Constructed
    /\ chickens = <<>>
    /\ pc = "env"

InitEnvLate ==
    /\ temperature \in {15000, 15200, 39800, 40000}
    /\ light \in {2, 5, 596, 599}
    /\ water_level \in {0, 150, 99000, 100000}
    /\ feed_level \in {0, 100}
    /\ pump \in BOOLEAN /\ fan \in BOOLEAN /\ light_on \in BOOLEAN
    /\ time = 1200 /\ hist_len = MAX_HISTORY
    /\ has_alert_flags = FALSE
    /\ light_alert_sent = FALSE /\ temp_alert_sent = FALSE
    /\ water_alert_sent = FALSE /\ feed_alert_sent = FALSE
    /\ events = <<>> /\ posts = <<>>
    /\ chickens = <<>> /\ hotspots = <<>>
    /\ running = TRUE /\ pc = "env"
    /\ steps = <<>> /\ moves = 0 /\ scan_moves = 0
    /\ evals = 0 /\ hot_run = 0 /\ hot_acts = 0
    /\ last_fan_ev = "none" /\ last_pump_ev = "none" /\ unsent = 0
    /\ feed_alerts = 0
    /\ Apart

\* any setting of the three actuators
Actuate ==
    /\ pc = "env"
    /\ \E f \in BOOLEAN, p \in BOOLEAN, l \in BOOLEAN :
          /\ <<f, p, l>> # <<fan, pump, light_on>>
          /\ fan' = f /\ pump' = p /\ light_on' = l
    /\ UNCHANGED <<apart_vars, temperature, light, water_level, feed_level, time, hist_len,
                   flag_vars, events, posts, loop_vars, hist_vars>>

EnvUpdate ==
    /\ pc = "env" /\ Len(steps) < MaxUpdates
    /\ UpdateWith(AllDraws(time + 1))
    /\ steps' = Append(steps, "update")
    /\ UNCHANGED <<apart_vars, flag_vars, events, posts, chickens, hotspots, running, pc,
                   moves, scan_moves, hist_vars>>

NextEnv == Actuate \/ EnvUpdate

SpecEnv == (InitEnv \/ InitEnvLate) /\ [][NextEnv]_vars

----------------------------------------------------------------------------
(* A test harness for the closed loop of one FarmState: automation_agent() *)
(* and update() are called in turn, as lines 332-333 of run_simulation do, *)
(* with the dashboard reachable.  A start is either a fresh FarmState      *)
(* whose temperature the test has set, evaluated at once, or the state     *)
(* late in a run (tick 1200) in which all three actuators run, each with   *)
(* its latch, and the readings are close to the switch-off thresholds.     *)

\* agent evaluations of the closed-loop harness
MaxTicks == 5

FreshStart(t) ==
    [temperature |-> t, fan |-> FALSE, light |-> 320, light_on |-> FALSE,
     water_level |-> 85000, pump |-> FALSE, feed_level |-> 75000,
     time |-> 0, flags |-> FALSE, pc |-> "farm_agent"]

RunningStart(t, l, w) ==
    [temperature |-> t, fan |-> TRUE, light |-> l, light_on |-> TRUE,
     water_level |-> w, pump |-> TRUE, feed_level |-> 40000,
     time |-> 1200, flags |-> TRUE, pc |-> "farm_update"]

FarmStarts ==
    {FreshStart(39000), FreshStart(26000), RunningStart(15300, 540, 89980)}

LiveStarts ==
    {RunningStart(15500, 538, 89980)}

\* late in a run with every actuator at rest and the feeder at f
LowFeedStart(f) ==
    [temperature |-> 22000, fan |-> FALSE, light |-> 450, light_on |-> FALSE,
     water_level |-> 70000, pump |-> FALSE, feed_level |-> f,
     time |-> 1200, flags |-> TRUE, pc |-> "farm_update"]

\* the feeder just above the alert threshold, at it, and almost empty
FeedStarts ==
    {LowFeedStart(20100), LowFeedStart(20000), LowFeedStart(150)}

Started(S) ==
    /\ \E s \in S :
          /\ temperature = s.temperature /\ fan = s.fan
          /\ light = s.light /\ light_on = s.light_on
          /\ water_level = s.water_level /\ pump = s.pump
          /\ feed_level = s.feed_level
          /\ time = s.time
          /\ hist_len = Min(MAX_HISTORY, s.time \div 5)
          /\ has_alert_flags = s.flags
          /\ temp_alert_sent = s.fan /\ water_alert_sent = s.pump
          /\ pc = s.pc
    /\ light_alert_sent = FALSE
    /\ feed_alert_sent = (has_alert_flags /\ feed_level < 20000)
    /\ events = <<>> /\ posts = <<>>
    /\ chickens = <<>> /\ hotspots = <<>>
    /\ running = TRUE
    /\ steps = <<>> /\ moves = 0 /\ scan_moves = 0
    /\ evals = 0 /\ hot_run = 0 /\ hot_acts = 0
    /\ last_fan_ev = (IF fan THEN "Activated" ELSE "none")
    /\ last_pump_ev = (IF pump THEN "Activated" ELSE "none")
    /\ unsent = 0
    /\ feed_alerts = (IF feed_alert_sent THEN 1 ELSE 0)
    /\ Apart

FarmUpdate ==
    /\ pc = "farm_update" /\ evals < MaxTicks
    /\ UpdateWith(AllDraws(time + 1))
    /\ pc' = "farm_agent"
    /\ UNCHANGED <<apart_vars, flag_vars, events, posts, chickens, hotspots, running, steps,
                   moves, scan_moves, hist_vars>>

FarmAgent ==
    /\ pc = "farm_agent"
    /\ AgentBody(temperature, light, water_level, feed_level, <<>>, {TRUE})
    /\ pc' = "farm_update"
    /\ UNCHANGED <<apart_vars, temperature, light, water_level, feed_level, time, hist_len,
                   chickens, hotspots, running, steps, moves, scan_moves>>

NextFarm == FarmUpdate \/ FarmAgent

SpecFarm == Started(FarmStarts) /\ [][NextFarm]_vars

\* the closed loop around the feed alert
SpecFeed == Started(FeedStarts) /\ [][NextFarm]_vars

\* The closed loop from the states in which all actuators run.  The loop
\* `while running` goes round for as long as no QUIT event arrives, so a
\* tick that can be taken is taken.
SpecLive == Started(LiveStarts) /\ [][NextFarm]_vars /\ WF_vars(NextFarm)

----------------------------------------------------------------------------
(* A test harness for scan_hotspots(): one RadarSystem is handed lists of   *)
(* positions, one list per call, any list any number of times.  The lists  *)
(* hold no chicken, lone chickens, pairs and larger groups in one cell,    *)
(* neighbours in adjacent cells, groups in the cells around 30 % and 70 % *)
(* of the width, and groups in the corners of the rectangle 80..720 by     *)
(* 220..420 that Chicken.move keeps the chickens in.                       *)

\* scan_hotspots() calls of the radar test
MaxScans == 3

At(x, y) == Spawn(x, y, <<5, 0>>, 10, 60)

RadarInputs ==
    { <<>>,
      <<At(400, 300)>>,
      <<At(404, 300), At(405, 300)>>,
      <<At(100, 250), At(250, 400), At(400, 325), At(550, 280), At(700, 390)>>,
      <<At(400, 300), At(402, 301), At(100, 250), At(250, 400), At(700, 390)>>,
      <<At(400, 300), At(402, 301), At(404, 302), At(600, 400), At(601, 401)>>,
      <<At(390, 300), At(392, 301), At(395, 303), At(400, 310), At(404, 314)>>,
      <<At(100, 250), At(101, 251), At(700, 390), At(701, 391), At(400, 300)>>,
      <<At(247, 300), At(250, 305)>>,
      <<At(547, 300), At(550, 305)>>,
      <<At(232, 300), At(235, 305), At(562, 300), At(565, 305)>>,
      <<At(80, 220), At(89, 224), At(720, 420), At(715, 410)>> }

InitRadar ==
    /\ Constructed
    /\ chickens = <<>>
    /\ pc = "radar"

RadarScan ==
    /\ pc = "radar" /\ Len(steps) < MaxScans
    /\ \E chs \in RadarInputs :
          \E noise \in [HotCells(chs) -> IntensityNoise] :
             /\ chickens' = chs
             /\ hotspots' = ScanResult(hotspots, chs, noise)
    /\ prev_scan' = IF steps = <<>> THEN <<>>
                    ELSE <<[positions |-> chickens, result |-> hotspots]>>
    /\ steps' = Append(steps, "scan")
    /\ UNCHANGED <<farm_vars, flag_vars, events, posts, running, pc, moves,
                   scan_moves, hist_vars, server_vars, thread_vars>>

NextRadar == RadarScan

SpecRadar == InitRadar /\ [][NextRadar]_vars

----------------------------------------------------------------------------
(* A test harness for Chicken.move(): one chicken some way into its walk,   *)
(* inside the rectangle and one step or less from a wall, a corner or none, *)
(* with any heading, slow or fast, two moves before or long before its     *)
(* next retarget; it is moved repeatedly, a retarget drawing any heading.  *)

\* Chicken.move() calls of the chicken test
MaxMoves == 4

ChickenStarts ==
    {[x |-> x, y |-> y, dir |-> d, speed |-> s, step_timer |-> t, step_max |-> 20] :
        x \in {810, 4000, 7190}, y \in {2210, 3200, 4190},
        d \in Headings, s \in {5, 20}, t \in {0, 18}}

\* the draws of a retarget: any heading, speed 0.5 or 2
ChickenDraws ==
    {[dir |-> d, speed |-> s, step_max |-> 20] : d \in Headings, s \in {5, 20}}

InitChicken ==
    /\ Constructed
    /\ \E ch \in ChickenStarts : chickens = <<ch>>
    /\ pc = "walk"

ChickenMove ==
    /\ pc = "walk" /\ moves < MaxMoves
    /\ \E draws \in [Retargeting(chickens) -> ChickenDraws] :
          chickens' = MoveAll(chickens, draws)
    /\ moves' = moves + 1
    /\ UNCHANGED <<apart_vars, farm_vars, flag_vars, events, posts, hotspots, running,
                   pc, steps, scan_moves, hist_vars>>

NextChicken == ChickenMove

SpecChicken == InitChicken /\ [][NextChicken]_vars

----------------------------------------------------------------------------
(* server.py: the Flask handlers, one action per request handled.  A JSON  *)
(* body is a function on its keys.  datetime.now() and time.strftime()      *)
(* read the clock, which the model counts in requests from the start of    *)
(* the test: the request being handled arrives at requests + 1, and what   *)
(* the server stored before the test carries earlier (negative) times.     *)

\* requests of the server test
MaxRequests == 4

DataMaxLen == 300
ActivityMaxLen == 50
HotspotMaxLen == 100

\* `if data:`
Truthy(body) == DOMAIN body # {}

\* data.get(key, default)
GetOr(body, key, default) == IF key \in DOMAIN body THEN body[key] ELSE default

\* current_data.update(data)
DictUpdate(cur, data) ==
    [k \in DOMAIN cur \cup DOMAIN data |-> IF k \in DOMAIN data THEN data[k] ELSE cur[k]]

\* variant: a list, which grows without limit
ListAppend(buf, maxlen, e) == Append(buf, e)

\* deque(maxlen=n).append(e)
DequeAppend(buf, maxlen, e) ==
    IF Len(buf) < maxlen THEN Append(buf, e) ELSE Append(Tail(buf), e)

\* add_to_history's data_entry
DataEntry(cur, now) ==
    [timestamp |-> now, temperature |-> cur["temperature"], humidity |-> cur["humidity"],
     tankLevel |-> cur["tankLevel"], feed |-> cur["feed"], light |-> cur["light"]]

\* activity_event's event
ActivityEntry(body, now) ==
    [title |-> GetOr(body, "title", "Event"), detail |-> GetOr(body, "detail", ""),
     color |-> GetOr(body, "color", "blue"), time |-> now, timestamp |-> now]

\* hotspot_data's hotspot_entry
HotspotEntry(body, now) == [timestamp |-> now, hotspots |-> body["hotspots"]]

Emit(name, data) == <<[name |-> name, data |-> data]>>

\* bodies the simulation posts, and bodies that are empty, lack keys or
\* carry other keys
SensorBodies ==
    {NoBody,
     [temperature |-> 26000, humidity |-> 4500, tankLevel |-> 85000, feed |-> 75000,
      light |-> 320],
     [temperature |-> 31000],
     [pressure |-> 1013]}

ActivityRequests ==
    {NoBody,
     [title |-> "Fan", detail |-> "Activated", color |-> "red"],
     [title |-> "Pump"],
     [note |-> "refill"]}

HotspotRequests == {NoBody, [hotspots |-> DemoHotspots], [spots |-> <<>>]}

StateRequests == {NoBody, DeviceState(TRUE, FALSE, TRUE, FALSE)}

\* the server after a long run: the simulation has updated current_data and
\* each deque has been filled to its maxlen, no entry evicted yet
ServerLate ==
    /\ current_data = [temperature |-> 26500, humidity |-> 5000, tankLevel |-> 84000,
                       feed |-> 70000, light |-> 330]
    /\ data_history =
          [i \in 1 .. DataMaxLen |->
              [timestamp |-> i - 1000, temperature |-> 26500, humidity |-> 5000,
               tankLevel |-> 84000, feed |-> 70000, light |-> 330]]
    /\ activity_history =
          [i \in 1 .. ActivityMaxLen |->
              [title |-> "Fan",
               detail |-> IF i % 2 = 1 THEN "Activated" ELSE "Deactivated",
               color |-> IF i % 2 = 1 THEN "red" ELSE "green",
               time |-> i - 500, timestamp |-> i - 500]]
    /\ hotspot_history =
          [i \in 1 .. HotspotMaxLen |-> [timestamp |-> i - 200, hotspots |-> DemoHotspots]]
    /\ emitted = <<>> /\ requests = 0
    /\ request = [route |-> "none", body |-> NoBody] /\ response = 0
    /\ data_entry = NoBody /\ versions = {current_data}

InitServer ==
    /\ SimulationConstructed
    /\ chickens = <<>> /\ prev_scan = <<>>
    /\ pc = "serve"
    /\ (ServerStarted \/ ServerLate)

\* what every handler does: the request is taken and answered
Handled(route, body, status) ==
    /\ pc = "serve" /\ requests < MaxRequests
    /\ request' = [route |-> route, body |-> body]
    /\ response' = status
    /\ requests' = requests + 1
    /\ UNCHANGED <<farm_vars, flag_vars, events, posts, loop_vars, hist_vars, prev_scan,
                   thread_vars>>

\* GET /api/sensor-data
GetSensorData ==
    /\ data_history' = DequeAppend(data_history, DataMaxLen,
                                   DataEntry(current_data, requests + 1))
    /\ emitted' = <<>>
    /\ Handled("/api/sensor-data", NoBody, 200)
    /\ UNCHANGED <<current_data, activity_history, hotspot_history>>

\* POST /update-sensor
UpdateSensorData ==
    \E data \in SensorBodies :
        /\ IF Truthy(data)
           THEN /\ current_data' = DictUpdate(current_data, data)
                /\ emitted' = Emit("sensor_update", current_data')
           ELSE /\ emitted' = <<>>
                /\ UNCHANGED current_data
        /\ Handled("/update-sensor", data, 200)
        /\ UNCHANGED <<data_history, activity_history, hotspot_history>>

\* POST /activity-event
ActivityEvent ==
    \E data \in ActivityRequests :
        /\ IF ~Truthy(data)
           THEN /\ Handled("/activity-event", data, 400)
                /\ emitted' = <<>>
                /\ UNCHANGED activity_history
           ELSE /\ activity_history' =
                      DequeAppend(activity_history, ActivityMaxLen,
                                  ActivityEntry(data, requests + 1))
                /\ emitted' = Emit("activity_event", ActivityEntry(data, requests + 1))
                /\ Handled("/activity-event", data, 200)
        /\ UNCHANGED <<current_data, data_history, hotspot_history>>

\* POST /system-state
SystemState ==
    \E data \in StateRequests :
        /\ emitted' = (IF Truthy(data) THEN Emit("system_state", data) ELSE <<>>)
        /\ Handled("/system-state", data, 200)
        /\ UNCHANGED <<current_data, data_history, activity_history, hotspot_history>>

\* POST /hotspot-data
HotspotData ==
    \E data \in HotspotRequests :
        /\ IF Truthy(data) /\ "hotspots" \in DOMAIN data
           THEN /\ hotspot_history' =
                      DequeAppend(hotspot_history, HotspotMaxLen,
                                  HotspotEntry(data, requests + 1))
                /\ emitted' = Emit("hotspot_data", data)
           ELSE /\ emitted' = <<>>
                /\ UNCHANGED hotspot_history
        /\ Handled("/hotspot-data", data, 200)
        /\ UNCHANGED <<current_data, data_history, activity_history>>

NextServer == GetSensorData \/ UpdateSensorData \/ ActivityEvent \/ SystemState \/ HotspotData

SpecServer == InitServer /\ [][NextServer]_vars

----------------------------------------------------------------------------
(* The server under async_mode="threading": every request runs in a thread *)
(* of its own.  A GET /api/sensor-data thread runs add_to_history, which   *)
(* reads the clock and then the five fields of the global current_data one *)
(* subscript at a time, in the order of the dict display, and appends the  *)
(* entry; nothing in the code holds a lock, so POST /update-sensor threads *)
(* may run between any two of these steps.  current_data.update(data) and  *)
(* deque.append are single calls into the interpreter and are taken as one *)
(* step each.  One GET is in flight at a time.                             *)

\* the subscripts of add_to_history's dict display, in evaluation order
FieldOrder == <<"temperature", "humidity", "tankLevel", "feed", "light">>

\* the dict display with one more item evaluated
WithItem(entry, key, value) ==
    [k \in DOMAIN entry \cup {key} |-> IF k = key THEN value ELSE entry[k]]

\* the simulation's vars and the other two deques, which these handlers leave alone
ThreadFrame ==
    UNCHANGED <<farm_vars, flag_vars, events, posts, loop_vars, hist_vars, prev_scan,
                activity_history, hotspot_history>>

\* GET /api/sensor-data arrives: timestamp = datetime.now()
GetBegin ==
    /\ pc = "serve" /\ requests < MaxRequests
    /\ data_entry = NoBody
    /\ data_entry' = [timestamp |-> requests + 1]
    /\ request' = [route |-> "/api/sensor-data", body |-> NoBody]
    /\ requests' = requests + 1
    /\ UNCHANGED <<current_data, data_history, emitted, response, versions>>
    /\ ThreadFrame

\* the next current_data[key] of the dict display
GetReadField ==
    /\ pc = "serve"
    /\ data_entry # NoBody
    /\ \E i \in DOMAIN FieldOrder :
          /\ FieldOrder[i] \notin DOMAIN data_entry
          /\ \A j \in 1 .. i - 1 : FieldOrder[j] \in DOMAIN data_entry
          /\ data_entry' = WithItem(data_entry, FieldOrder[i], current_data[FieldOrder[i]])
    /\ UNCHANGED <<current_data, data_history, emitted, request, response, requests, versions>>
    /\ ThreadFrame

\* data_history.append(data_entry); return jsonify(current_data)
GetAppend ==
    /\ pc = "serve"
    /\ \A i \in DOMAIN FieldOrder : FieldOrder[i] \in DOMAIN data_entry
    /\ data_history' = DequeAppend(data_history, DataMaxLen, data_entry)
    /\ data_entry' = NoBody
    /\ response' = 200
    /\ UNCHANGED <<current_data, emitted, request, requests, versions>>
    /\ ThreadFrame

\* POST /update-sensor in a thread of its own, at any moment
PostUpdate ==
    /\ pc = "serve" /\ requests < MaxRequests
    /\ \E data \in SensorBodies :
          /\ IF Truthy(data)
             THEN /\ current_data' = DictUpdate(current_data, data)
                  /\ emitted' = Emit("sensor_update", current_data')
             ELSE /\ emitted' = <<>>
                  /\ UNCHANGED current_data
          /\ request' = [route |-> "/update-sensor", body |-> data]
    /\ versions' = versions \cup {current_data'}
    /\ response' = 200
    /\ requests' = requests + 1
    /\ UNCHANGED <<data_history, data_entry>>
    /\ ThreadFrame

NextThreads == GetBegin \/ GetReadField \/ GetAppend \/ PostUpdate

SpecThreads == InitServer /\ [][NextThreads]_vars

----------------------------------------------------------------------------
(* Properties *)

\* a step that is one automation_agent() call
EvalStep == evals' = evals + 1

ActivityPosts(ps) == SelectSeq(ps, LAMBDA p : p.url = "activity-event")

EventsOf(evs, subject) == SelectSeq(evs, LAMBDA e : e[1] = subject)

\* position of an event's subject in the order light, fan, pump, feed
Rank(e) ==
    CASE e[1] = "Light" -> 1 [] e[1] = "Fan" -> 2 [] e[1] = "Pump" -> 3 [] e[1] = "Feed" -> 4

\* C1: in every reachable state of FarmState, whatever the actuators and the
\* draws, temperature is in [15,40], light in [0,600], water_level and
\* feed_level in [0,100].
C1_Clamped ==
    /\ 15000 <= temperature /\ temperature <= 40000
    /\ 0 <= light /\ light <= 600
    /\ 0 <= water_level /\ water_level <= 100000
    /\ 0 <= feed_level /\ feed_level <= 100000

\* an update() has just held all four readings at an end of their range
C1_Witness ==
    /\ Len(steps) >= 1
    /\ temperature = 40000 /\ light = 0
    /\ water_level = 100000 /\ feed_level = 0

\* C2: over a run of consecutive evaluations at temperature >= 27 that began
\* with the fan off, exactly one ("Fan", "Activated") event is appended, and
\* it is appended in the first evaluation of the run.
C2_OneActivationPerRun ==
    /\ hot_run >= 1 => hot_acts = 1
    /\ hot_run = 1 => CountOf(events, FanActivated) = 1
    /\ hot_run > 1 => CountOf(events, FanActivated) = 0

\* three evaluations in a row at >= 27 C, the fan switched on by the first
C2_Witness == hot_run = 3 /\ hot_acts = 1 /\ fan

\* C3: a running pump keeps running through every evaluation that reads
\* water_level < 90 and stops only in an evaluation that reads >= 90; a
\* stopped pump starts when the evaluation reads < 50.
C3_PumpHysteresis ==
    [][EvalStep =>
        /\ (pump /\ water_level' < 90000) => pump'
        /\ (pump /\ ~pump') => water_level' >= 90000
        /\ (~pump /\ water_level' < 50000) => pump']_vars

\* the pump, started earlier, has just been evaluated at 89 % and still runs
C3_Witness ==
    /\ evals >= 2 /\ pump /\ water_level = 89000
    /\ last_pump_ev = "Activated" /\ CountOf(events, PumpActivated) = 0

\* C4: from temperature=28, light=400, water_level=45, feed_level=15 with
\* fan, pump and light off and the latches false, one evaluation gives
\* fan on, pump on, light off, and the event list starts with
\* ("Fan", "Activated", "red"), which is the event posted, ahead of the
\* Pump and Feed events.
C4_Scenario ==
    [][(/\ EvalStep
        /\ ~fan /\ ~pump /\ ~light_on
        /\ ~Latch(temp_alert_sent) /\ ~Latch(water_alert_sent) /\ ~Latch(feed_alert_sent)
        /\ temperature' = 28000 /\ light' = 400
        /\ water_level' = 45000 /\ feed_level' = 15000)
       => (/\ fan' /\ pump' /\ ~light_on'
           /\ events' = <<FanActivated, PumpActivated, LowFeedAlert>>
           /\ ActivityPosts(posts') # <<>>
           /\ ActivityPosts(posts')[1].body = FanActivated)]_vars

\* the scenario evaluated as the first call on a fresh FarmState
C4_Witness ==
    /\ evals = 1
    /\ temperature = 28000 /\ light = 400 /\ water_level = 45000 /\ feed_level = 15000
    /\ fan /\ pump /\ ~light_on
    /\ events = <<FanActivated, PumpActivated, LowFeedAlert>>

\* C5: in one evaluation the light goes OFF->ON iff light <= 350 and ON->OFF
\* iff light >= 550, the fan goes OFF->ON iff temperature >= 27 and ON->OFF
\* iff temperature <= 15; between its two thresholds an actuator keeps its
\* state.
C5_ThresholdTable ==
    [][EvalStep =>
        /\ ~light_on => (light_on' <=> light' <= 350)
        /\ light_on => (~light_on' <=> light' >= 550)
        /\ ~fan => (fan' <=> temperature' >= 27000)
        /\ fan => (~fan' <=> temperature' <= 15000)]_vars

\* light and fan, both on from an earlier evaluation, have just been
\* evaluated between their thresholds and are still on
C5_Witness ==
    /\ evals >= 2
    /\ light_on /\ light = 400 /\ EventsOf(events, "Light") = <<>>
    /\ fan /\ temperature = 20000 /\ EventsOf(events, "Fan") = <<>>

\* C6: an evaluation appends a Fan (Pump) event exactly when the fan (pump)
\* changes state, "Activated" for OFF->ON and "Deactivated" for ON->OFF, and
\* none when the state persists; so the Fan events of a run alternate,
\* starting with Activated.
C6_EventPerTransition ==
    [][EvalStep =>
        /\ EventsOf(events', "Fan") =
              (IF fan' = fan THEN <<>>
               ELSE IF fan' THEN <<FanActivated>> ELSE <<FanDeactivated>>)
        /\ EventsOf(events', "Pump") =
              (IF pump' = pump THEN <<>>
               ELSE IF pump' THEN <<PumpActivated>> ELSE <<PumpDeactivated>>)
        /\ \A i \in DOMAIN events' :
              events'[i][1] = "Fan" =>
                 events'[i][2] = (IF last_fan_ev = "Activated" THEN "Deactivated"
                                  ELSE "Activated")]_vars

\* third evaluation: the fan, switched on earlier, switches off with its one
\* Deactivated event while the running pump persists without an event
C6_Witness ==
    /\ evals = 3
    /\ ~fan /\ EventsOf(events, "Fan") = <<FanDeactivated>>
    /\ pump /\ last_pump_ev = "Activated" /\ EventsOf(events, "Pump") = <<>>

\* C7: an evaluation posts at most one activity notification, and when it
\* appended any event the one posted is the first of the list, which is the
\* first in the order light, fan, pump, feed, however many were appended.
C7_FirstEventOnly ==
    pc \in {"test", "done"} =>
        /\ Len(ActivityPosts(posts)) <= 1
        /\ events = <<>> => ActivityPosts(posts) = <<>>
        /\ events # <<>> =>
              /\ Len(ActivityPosts(posts)) = 1
              /\ ActivityPosts(posts)[1].body = events[1]
              /\ \A i \in 2..Len(events) : Rank(events[1]) < Rank(events[i])

\* four events appended in one evaluation, one notification posted
C7_Witness == Len(events) = 4 /\ Len(ActivityPosts(posts)) = 1

\* C8 as claimed: every event appended is posted exactly once, in its tick or
\* a later one; so when the run has ended no appended event is left unposted.
C8_EveryEventConsumed == pc = "done" => unsent = 0

\* C8 as amended: of the events one evaluation appends, the first is posted
\* once in that evaluation and the others are never posted: the count of
\* events left unposted grows by (appended - 1) and never shrinks.
C8_OnlyFirstConsumed ==
    [][EvalStep =>
        /\ Len(ActivityPosts(posts')) = Min(1, Len(events'))
        /\ events' # <<>> => ActivityPosts(posts')[1].body = events'[1]
        /\ unsent' = unsent + Max(0, Len(events') - 1)]_vars

\* an evaluation appended three events and two of them stay unposted
C8_Witness ==
    /\ Len(events) = 3 /\ Len(ActivityPosts(posts)) = 1 /\ unsent >= 2

\* C9: with the feed latch false an evaluation at feed_level < 20 sets it and
\* appends one ("Feed", "Low Feed Alert") event; with the latch true it
\* stays true with no Feed event while feed_level <= 30 and is reset,
\* without an event, by an evaluation at feed_level > 30.
C9_FeedLatch ==
    [][EvalStep =>
        /\ (~Latch(feed_alert_sent) /\ feed_level' < 20000) =>
              (feed_alert_sent' /\ EventsOf(events', "Feed") = <<LowFeedAlert>>)
        /\ (~Latch(feed_alert_sent) /\ feed_level' >= 20000) =>
              (~feed_alert_sent' /\ EventsOf(events', "Feed") = <<>>)
        /\ (Latch(feed_alert_sent) /\ feed_level' <= 30000) =>
              (feed_alert_sent' /\ EventsOf(events', "Feed") = <<>>)
        /\ (Latch(feed_alert_sent) /\ feed_level' > 30000) =>
              (~feed_alert_sent' /\ EventsOf(events', "Feed") = <<>>)]_vars

\* the latch, set earlier, has just been evaluated at exactly 30 % and holds
C9_Witness ==
    /\ evals >= 2 /\ feed_alert_sent /\ feed_level = 30000
    /\ EventsOf(events, "Feed") = <<>>

IsPrefix(a, b) == Len(a) <= Len(b) /\ \A i \in DOMAIN a : a[i] = b[i]

\* C10 as claimed: the blocks of an iteration run in the order motion, scan,
\* update, automation, notification, and a scan sees the positions made by
\* the motion step of its own iteration.
C10_MotionFirst ==
    /\ IsPrefix(steps, <<"move", "scan", "update", "agent", "notify">>)
    /\ pc = "notify" => scan_moves = time

\* C10 as amended: the blocks of an iteration run in the order update,
\* automation, scan, notification (sensor and hotspot pushes), motion; a scan
\* sees the positions made by the motion step of the previous iteration (the
\* spawn positions in the first).
C10_UpdateFirst ==
    /\ IsPrefix(steps, <<"update", "agent", "scan", "notify", "move">>)
    /\ Len(steps) >= 3 => (scan_moves = time - 1 /\ time >= 1)
    /\ Len(steps) = 5 => moves = time
    /\ Len(steps) >= 2 =>
          /\ posts # <<>>
          /\ posts[Len(ActivityPosts(posts)) + 1].url = "system-state"

\* iteration 15 has run to its end: its scan saw the positions made by the
\* motion of iteration 14, and the sensors were pushed after the scan
C10_Witness ==
    /\ time = 15 /\ steps = <<"update", "agent", "scan", "notify", "move">>
    /\ scan_moves = 14 /\ moves = 15
    /\ \E i \in DOMAIN posts : posts[i].url = "update-sensor"


\* a step that is one update() call
UpdateStep == time' = time + 1

\* C11 as claimed: an evaluation at temperature 39 with the fan off turns the
\* fan on; in every update() with the fan on the temperature does not rise,
\* and it falls by at least 0.2 whenever it was above the floor 15.
C11_FallsByFifthAboveFloor ==
    [][/\ (EvalStep /\ ~fan /\ temperature' = 39000) => fan'
       /\ (UpdateStep /\ fan) =>
             /\ temperature' <= temperature
             /\ temperature > 15000 => temperature' <= temperature - 200]_vars

\* C11 as amended: an evaluation at temperature 39 with the fan off turns the
\* fan on; every update() with the fan on takes the temperature to
\* max(15, temperature - d) with 0.2 <= d <= 0.4: it never rises, falls
\* strictly from any value above 15, and falls by at least 0.2 unless it
\* lands on the floor 15, which from below 15.2 is a fall of less than 0.2.
C11_FanFeedback ==
    [][/\ (EvalStep /\ ~fan /\ temperature' = 39000) => fan'
       /\ (UpdateStep /\ fan) =>
             /\ temperature' <= temperature
             /\ temperature' >= Max(15000, temperature - 400)
             /\ temperature' <= Max(15000, temperature - 200)
             /\ temperature > 15000 => temperature' < temperature]_vars

\* the fan, started by the evaluation at 39, has cooled the coop over the
\* updates since
C11_Witness ==
    /\ fan /\ last_fan_ev = "Activated" /\ time >= 3
    /\ temperature <= 39000 - 200 * time


\* what the tick leaves behind apart from the posts: readings, actuators,
\* latches, tick counter, chicken positions
CoreState == <<farm_vars, flag_vars, chickens>>

Failed(ps, url) == \E i \in DOMAIN ps : ps[i].url = url /\ ~ps[i].ok

\* C12: whichever of the activity-event, system-state, sensor and hotspot
\* posts raise, the block that made them goes on to the next block (the loop
\* ends only after a QUIT event), and the core state it leaves is the one the
\* controllers compute from the readings, the same for every outcome of the
\* posts; the sensor and hotspot pushes leave the core state as it was.
C12_FailuresSwallowed ==
    /\ [](pc = "done" => ~running)
    /\ [][/\ pc = "agent" =>
               /\ pc' = "scan"
               /\ light_on' = LightControl(light, light_on).on
               /\ fan' = TemperatureControl(temperature, fan, Latch(temp_alert_sent)).on
               /\ temp_alert_sent' =
                     TemperatureControl(temperature, fan, Latch(temp_alert_sent)).sent
               /\ pump' = PumpControl(water_level, pump, Latch(water_alert_sent)).on
               /\ water_alert_sent' =
                     PumpControl(water_level, pump, Latch(water_alert_sent)).sent
               /\ feed_alert_sent' = FeedAlert(feed_level, Latch(feed_alert_sent)).sent
               /\ UNCHANGED <<temperature, light, water_level, feed_level, time, chickens>>
               /\ posts'[Len(posts')].url = "system-state"
          /\ pc = "notify" =>
               /\ pc' = "move"
               /\ UNCHANGED CoreState]_vars

\* tick 30 has run to its end, chickens moved, although its system-state,
\* sensor and hotspot posts all raised
C12_Witness ==
    /\ time = 30 /\ steps = <<"update", "agent", "scan", "notify", "move">>
    /\ Failed(posts, "system-state") /\ Failed(posts, "update-sensor")
    /\ Failed(posts, "hotspot-data")
    /\ moves = 30


StatePosts(ps) == SelectSeq(ps, LAMBDA p : p.url = "system-state")

\* C13: every automation_agent() evaluation, with or without a transition
\* or an event, hands exactly one device-state snapshot to the sync layer, as
\* its last post, and the snapshot's fan, pump and light_on are the actuator
\* values after that evaluation's transitions.
C13_SnapshotEveryEvaluation ==
    [][EvalStep =>
        /\ Len(StatePosts(posts')) = 1
        /\ posts'[Len(posts')].url = "system-state"
        /\ posts'[Len(posts')].body.fan = fan'
        /\ posts'[Len(posts')].body.pump = pump'
        /\ posts'[Len(posts')].body.light_on = light_on']_vars

\* an evaluation, not the first, that changed no actuator and appended no
\* event has posted the snapshot of the running fan and lamp
C13_Witness ==
    /\ evals >= 2 /\ events = <<>>
    /\ fan /\ light_on /\ last_fan_ev = "Activated" /\ time <= MaxTicks
    /\ posts = <<[url |-> "system-state",
                  body |-> DeviceState(TRUE, FALSE, TRUE, FALSE), ok |-> TRUE]>>


\* a scan result without the intensities of its measured hotspots
WithoutNoise(hs) ==
    [j \in DOMAIN hs |->
        IF j <= 3 THEN hs[j] ELSE [x |-> hs[j].x, y |-> hs[j].y, name |-> hs[j].name]]

Cells == 0 .. (GridWidth * GridHeight - 1)

\* C14: a scan result is the three landmark hotspots followed by one measured
\* hotspot per cell holding at least two of the positions passed to that
\* call, and nothing of an earlier result; two scans in a row over the same
\* positions give the same landmarks and the same measured hotspots, with the
\* same coordinates and labels (the intensities may differ).
C14_ScanFresh ==
    steps # <<>> =>
        /\ Len(hotspots) = 3 + Cardinality({k \in Cells : ChickenCount(chickens, k) >= 2})
        /\ SubSeq(hotspots, 1, 3) = DemoHotspots
        /\ (prev_scan # <<>> /\ prev_scan[1].positions = chickens) =>
              WithoutNoise(prev_scan[1].result) = WithoutNoise(hotspots)

\* two scans in a row over the same five positions: two measured hotspots
\* each time, with different intensities
C14_Witness ==
    /\ prev_scan # <<>> /\ prev_scan[1].positions = chickens
    /\ Len(chickens) = 5 /\ Len(hotspots) = 5
    /\ prev_scan[1].result # hotspots

\* the measured hotspots of a result that lie at the center of cell k
MeasuredAt(hs, k) ==
    {j \in 4 .. Len(hs) :
        /\ hs[j].x = 5 * ((k % GridWidth) * GridSize + GridSize \div 2)
        /\ hs[j].y = 8 * ((k \div GridWidth) * GridSize + GridSize \div 2)}

\* C15: a result holds a measured hotspot for a cell iff at least 2 of the
\* positions are binned into that cell, and then exactly one; so N chickens
\* give at most N div 2 measured hotspots, and none when each chicken is alone
\* in its cell.
C15_HotspotIffPair ==
    steps # <<>> =>
        /\ \A k \in Cells :
              Cardinality(MeasuredAt(hotspots, k)) =
                 (IF ChickenCount(chickens, k) >= 2 THEN 1 ELSE 0)
        /\ \A j \in 4 .. Len(hotspots) : \E k \in Cells : j \in MeasuredAt(hotspots, k)
        /\ Len(hotspots) - 3 <= Len(chickens) \div 2
        /\ (\A k \in Cells : ChickenCount(chickens, k) <= 1) => Len(hotspots) = 3

\* five chickens as two pairs and a loner: two measured hotspots, the most
\* five chickens can give
C15_Witness ==
    /\ steps # <<>> /\ Len(chickens) = 5 /\ Len(hotspots) = 5
    /\ \E k \in Cells : ChickenCount(chickens, k) = 1

\* C16 as claimed: a measured hotspot is labelled by thirds of the arena:
\* "Feed Area" when its center is in the left third, else "Water Area" in the
\* right third, else "Resting Zone" in the top third, else "Activity Zone".
\* (x and y are in fortieths of a percent: a third is 4000/3.)
C16_LabelByThirds ==
    \A j \in 4 .. Len(hotspots) :
        hotspots[j].name =
            (IF 3 * hotspots[j].x < 4000 THEN "Feed Area"
             ELSE IF 3 * hotspots[j].x > 8000 THEN "Water Area"
             ELSE IF 3 * hotspots[j].y < 4000 THEN "Resting Zone"
             ELSE "Activity Zone")


\* C17: after every move the chicken is in 80 <= x <= 720, 220 <= y <= 420;
\* a chicken on a wall has no heading component pointing out through that
\* wall; and a chicken that a move has brought onto a wall has, after that
\* move, a heading component pointing away from the wall.
C17_Contained ==
    /\ [](\A i \in DOMAIN chickens :
            /\ 800 <= chickens[i].x /\ chickens[i].x <= 7200
            /\ 2200 <= chickens[i].y /\ chickens[i].y <= 4200
            /\ chickens[i].x = 7200 => chickens[i].dir[1] <= 0
            /\ chickens[i].x = 800 => chickens[i].dir[1] >= 0
            /\ chickens[i].y = 4200 => chickens[i].dir[2] <= 0
            /\ chickens[i].y = 2200 => chickens[i].dir[2] >= 0)
    /\ [][moves' = moves + 1 =>
            \A i \in DOMAIN chickens :
               /\ (chickens[i].x < 7200 /\ chickens'[i].x = 7200) => chickens'[i].dir[1] < 0
               /\ (chickens[i].x > 800 /\ chickens'[i].x = 800) => chickens'[i].dir[1] > 0
               /\ (chickens[i].y < 4200 /\ chickens'[i].y = 4200) => chickens'[i].dir[2] < 0
               /\ (chickens[i].y > 2200 /\ chickens'[i].y = 2200) => chickens'[i].dir[2] > 0]_vars

\* a chicken has run into the right wall and the bottom wall in one move and
\* now heads up and to the left
C17_Witness ==
    /\ moves >= 1 /\ Len(chickens) = 1
    /\ chickens[1].x = 7200 /\ chickens[1].y = 4200
    /\ chickens[1].dir[1] < 0 /\ chickens[1].dir[2] < 0


\* `new` is `old` with one entry, stamped `stamp`, appended under the limit
\* `cap`: the entries kept are the latest of `old`, in their order
AppendedTo(old, new, cap, stamp) ==
    /\ Len(new) = Min(cap, Len(old) + 1)
    /\ new[Len(new)].timestamp = stamp
    /\ \A i \in 1 .. (Len(new) - 1) : new[i] = old[i + Len(old) + 1 - Len(new)]

InArrivalOrder(buf) ==
    \A i \in 1 .. (Len(buf) - 1) : buf[i].timestamp < buf[i + 1].timestamp

\* C18: data_history never holds more than 300 entries, activity_history 50,
\* hotspot_history 100, each in arrival order; a request leaves a buffer as
\* it was or appends its one entry, and an append to a full buffer drops the
\* oldest entry and no other.
C18_BoundedHistory ==
    /\ [](/\ Len(data_history) <= 300 /\ InArrivalOrder(data_history)
          /\ Len(activity_history) <= 50 /\ InArrivalOrder(activity_history)
          /\ Len(hotspot_history) <= 100 /\ InArrivalOrder(hotspot_history))
    /\ [][/\ \/ data_history' = data_history
             \/ AppendedTo(data_history, data_history', 300, requests')
          /\ \/ activity_history' = activity_history
             \/ AppendedTo(activity_history, activity_history', 50, requests')
          /\ \/ hotspot_history' = hotspot_history
             \/ AppendedTo(hotspot_history, hotspot_history', 100, requests')]_vars

\* three requests, one to each full buffer: each buffer is still full, has
\* lost its oldest entry and ends with the entry of its request
C18_Witness ==
    /\ requests = 3
    /\ Len(data_history) = 300 /\ data_history[1].timestamp = 2 - 1000
    /\ data_history[300].timestamp > 0
    /\ Len(activity_history) = 50 /\ activity_history[1].timestamp = 2 - 500
    /\ activity_history[50].timestamp > 0
    /\ Len(hotspot_history) = 100 /\ hotspot_history[1].timestamp = 2 - 200
    /\ hotspot_history[100].timestamp > 0

SensorKeys == {"temperature", "humidity", "tankLevel", "feed", "light"}

\* a body that is there and is not what the route expects
Malformed(req) ==
    /\ Truthy(req.body)
    /\ \/ /\ req.route = "/activity-event"
          /\ ~({"title", "detail", "color"} \subseteq DOMAIN req.body)
       \/ /\ req.route = "/update-sensor"
          /\ DOMAIN req.body # SensorKeys

\* C19 as claimed: a request whose body lacks expected fields or carries
\* unknown ones is refused, and current_data, activity_history and
\* hotspot_history stay as they were; nothing is stored or broadcast for it.
C19_MalformedRejected ==
    [][(requests' = requests + 1 /\ Malformed(request')) =>
          /\ response' >= 400
          /\ UNCHANGED <<current_data, activity_history, hotspot_history>>
          /\ emitted' = <<>>]_vars


\* C20: in the closed loop a running fan is eventually stopped, and only by
\* an evaluation at temperature 15, the clamp floor; a lit lamp is eventually
\* put out, by an evaluation at light >= 550; a running pump is eventually
\* stopped, by an evaluation at water_level >= 90.
C20_ActuatorsEventuallyOff ==
    /\ fan ~> ~fan
    /\ light_on ~> ~light_on
    /\ pump ~> ~pump
    /\ [][/\ (fan /\ ~fan') => temperature' = 15000
          /\ (light_on /\ ~light_on') => light' >= 550
          /\ (pump /\ ~pump') => water_level' >= 90000]_vars

\* fan, lamp and pump, all running at the start, have all been switched off
C20_Witness ==
    /\ ~fan /\ ~light_on /\ ~pump
    /\ last_fan_ev = "Deactivated" /\ last_pump_ev = "Deactivated"
    /\ temperature >= 15000 /\ light >= 550 /\ water_level >= 90000 - 200 * MaxTicks
    /\ time > 1200


\* C21: feed_level never increases from one tick to the next; so the feed
\* alert latch, once set, is never reset in a run, and the ("Feed", "Low
\* Feed Alert") event is appended at most once in the whole run.
C21_FeedAlertOnce ==
    /\ [][feed_level' <= feed_level]_vars
    /\ [][Latch(feed_alert_sent) => feed_alert_sent']_vars
    /\ [](feed_alerts <= 1)

\* the alert was raised in this run, and later evaluations of the still
\* falling feed_level kept the latch and appended no second alert
C21_Witness ==
    /\ feed_alerts = 1 /\ feed_alert_sent
    /\ feed_level > 19000 /\ feed_level < 20000
    /\ evals >= 3 /\ EventsOf(events, "Feed") = <<>>
    /\ pc = "farm_update"


\* the readings of this evaluation are those of the evaluation before it
SameReadings ==
    /\ evals >= 1
    /\ temperature' = temperature /\ light' = light
    /\ water_level' = water_level /\ feed_level' = feed_level

\* C22: automation_agent() is idempotent on an unchanged environment: a
\* second evaluation right after the first with the same temperature,
\* light, water_level and feed_level changes no actuator and no latch and
\* appends no event.
C22_Idempotent ==
    [][(EvalStep /\ SameReadings) =>
          /\ UNCHANGED <<fan, pump, light_on>>
          /\ UNCHANGED flag_vars
          /\ events' = <<>>]_vars

\* the first evaluation switched on lamp, fan and pump and raised the feed
\* alert; the second, on the same readings, did nothing
C22_Witness ==
    /\ evals = 2 /\ events = <<>>
    /\ light_on /\ light = 350
    /\ fan /\ temp_alert_sent /\ temperature = 27000
    /\ pump /\ water_alert_sent /\ water_level = 45000
    /\ feed_alert_sent /\ feed_level = 15000 /\ feed_alerts = 1


\* C23: after every automation_agent() evaluation of a run from the
\* constructed state each notification latch equals the actuator it guards,
\* temp_alert_sent = fan and water_alert_sent = pump; so no fan or pump
\* transition has its event suppressed by the latch test.
C23_LatchFollowsActuator ==
    /\ [](evals >= 1 => (temp_alert_sent = fan /\ water_alert_sent = pump))
    /\ [][EvalStep =>
            /\ fan' # fan => Len(EventsOf(events', "Fan")) = 1
            /\ pump' # pump => Len(EventsOf(events', "Pump")) = 1]_vars

\* the fan has been switched on and off again and the pump has just been
\* switched on, each with its event and its latch in step
C23_Witness ==
    /\ evals >= 2
    /\ ~fan /\ ~temp_alert_sent /\ last_fan_ev = "Deactivated"
    /\ pump /\ water_alert_sent /\ EventsOf(events, "Pump") = <<PumpActivated>>


\* the five sensor fields of a history entry are those of the value v
SnapshotOf(entry, v) == \A k \in SensorKeys : entry[k] = v[k]

\* C24, as claimed: with the handlers of POST /update-sensor and GET
\* /api/sensor-data interleaving in any way, every entry of data_history
\* is a consistent snapshot: its five sensor fields all come from one
\* value that current_data had at some instant.
C24_ConsistentSnapshots ==
    \A i \in DOMAIN data_history :
        \E v \in versions : SnapshotOf(data_history[i], v)

====
